---- MODULE Spec2Model ----
(***************************************************************************)
(* Trading-date resolution of dummy26/Stock-Prediction.                    *)
(*                                                                         *)
(* Two implementations of get_correct_pred_date exist:                     *)
(*   - src/model/keras_models/utils.py  (pred_date, df_first_date,         *)
(*     df_last_date, seq_len), reached through KerasModel.predict;         *)
(*   - src/utils/utils.py (pred_date, df_last_date), the legacy flow.      *)
(*                                                                         *)
(* A datetime.date is modelled by its proleptic Gregorian ordinal          *)
(* (date.toordinal()): 0001-01-01 is 1, 9999-12-31 is 3652059, and         *)
(* date.weekday() is (ordinal + 6) % 7 with Monday = 0 ... Sunday = 6.     *)
(* date +/- timedelta raises OverflowError outside [date.min, date.max].   *)
(* A date string is modelled by the date it parses to.                     *)
(***************************************************************************)
EXTENDS Integers, Sequences, FiniteSets, TLC

VARIABLES date, today, df_first_date, df_last_date, seq_len,
          result, notice, legacy, again

vars == <<date, today, df_first_date, df_last_date, seq_len,
          result, notice, legacy, again>>

---------------------------------------------------------------------------
(* Bounds of the model *)

\* ordinal of the first day a data window may start on (2024-01-01, a Monday)
WindowStart == 738886
\* the data window lies within WindowStart .. WindowStart + WindowSpan
WindowSpan == 7
\* requested dates reach this many days before WindowStart ...
DaysBefore == 7
\* ... and this many days after WindowStart + WindowSpan
DaysAfter == 5
\* requested dates also include date.min .. date.min + EarlySpan
EarlySpan == 2
\* seq_len ranges over 0 .. MaxSeqLen
MaxSeqLen == 3

---------------------------------------------------------------------------
(* datetime.date *)

\* date.min.toordinal()
DATE_MIN == 1
\* date.max.toordinal()
DATE_MAX == 3652059

InDateRange(n) == DATE_MIN <= n /\ n <= DATE_MAX

\* date.weekday(): Monday = 0 ... Sunday = 6
weekday(d) == (d + 6) % 7

---------------------------------------------------------------------------
(* Outcomes of a call: a returned date or a raised exception *)

Pending == [kind |-> "pending", date |-> 0, df_date |-> 0, lower |-> FALSE, limit |-> 0]

Returned(d) == [kind |-> "ok", date |-> d, df_date |-> 0, lower |-> FALSE, limit |-> 0]

\* date +/- timedelta left the range of datetime.date
OverflowError == [kind |-> "OverflowError", date |-> 0, df_date |-> 0, lower |-> FALSE, limit |-> 0]

\* keras_models/utils.py InvalidPredictionDateError: the message names
\* df_date + seq_len days when lower, df_date + 1 day otherwise
InvalidPredictionDateError(pred_date, df_date, len, lower) ==
    [kind |-> "InvalidPredictionDateError", date |-> pred_date, df_date |-> df_date,
     lower |-> lower, limit |-> IF lower THEN df_date + len ELSE df_date + 1]

\* utils/utils.py InvalidPredictionDateError: the message names df_last_date + 1 day
LegacyInvalidPredictionDateError(pred_date, df_last) ==
    [kind |-> "InvalidPredictionDateError", date |-> pred_date, df_date |-> df_last,
     lower |-> FALSE, limit |-> df_last + 1]

---------------------------------------------------------------------------
(* keras_models/utils.py get_correct_pred_date *)

\* mutant: the lower bound rejects the earliest allowed date itself
M_LowerBoundViolated_Inclusive(pred_date, first, len) == first + len >= pred_date

\* line 34: df_first_date + timedelta(days=seq_len) > pred_date
LowerBoundViolated(pred_date, first, len) == first + len > pred_date

\* mutant: no Friday case, the bound is last + 1 day on every weekday
M_UpperBoundViolated_NoFriday(pred_date, last) == last < pred_date - 1

\* mutant: the bound itself is rejected
M_UpperBoundViolated_Inclusive(pred_date, last) ==
    IF weekday(last) = 4
    THEN pred_date >= last + 3
    ELSE last <= pred_date - 1

\* mutant: a Saturday or Sunday last date is treated like a Friday
M_UpperBoundViolated_WeekendAsFriday(pred_date, last) ==
    IF weekday(last) >= 4
    THEN pred_date > last + 3
    ELSE last < pred_date - 1

\* lines 38-43: the freshness check, given that its date arithmetic is in range
UpperBoundViolated(pred_date, last) ==
    IF weekday(last) = 4
    THEN pred_date > last + 3
    ELSE last < pred_date - 1

\* the date arithmetic the freshness check performs: last + 3 on a Friday,
\* pred_date - 1 otherwise
UpperBoundOverflows(pred_date, last) ==
    IF weekday(last) = 4
    THEN ~InDateRange(last + 3)
    ELSE ~InDateRange(pred_date - 1)

\* mutant: a Saturday advances by one day only
M_WeekendSnap_SaturdayOneDay(pred_date) ==
    IF weekday(pred_date) = 5 THEN pred_date + 1
    ELSE IF weekday(pred_date) = 6 THEN pred_date + 1
    ELSE pred_date

\* mutant: a Sunday advances by two days
M_WeekendSnap_SundayTwoDays(pred_date) ==
    IF weekday(pred_date) = 5 THEN pred_date + 2
    ELSE IF weekday(pred_date) = 6 THEN pred_date + 2
    ELSE pred_date

\* mutant: a weekend date goes back to the Friday before
M_WeekendSnap_Backwards(pred_date) ==
    IF weekday(pred_date) = 5 THEN pred_date - 1
    ELSE IF weekday(pred_date) = 6 THEN pred_date - 2
    ELSE pred_date

\* lines 46-51: Saturday -> + 2 days, Sunday -> + 1 day
WeekendSnap(pred_date) ==
    IF weekday(pred_date) = 5 THEN pred_date + 2
    ELSE IF weekday(pred_date) = 6 THEN pred_date + 1
    ELSE pred_date

\* mutant: the freshness check runs before the lower-bound check
M_get_correct_pred_date_UpperFirst(pred_date, first, last, len) ==
    IF UpperBoundOverflows(pred_date, last) THEN OverflowError
    ELSE IF UpperBoundViolated(pred_date, last)
         THEN InvalidPredictionDateError(pred_date, last, len, FALSE)
    ELSE IF ~InDateRange(first + len) THEN OverflowError
    ELSE IF LowerBoundViolated(pred_date, first, len)
         THEN InvalidPredictionDateError(pred_date, first, len, TRUE)
    ELSE IF ~InDateRange(WeekendSnap(pred_date)) THEN OverflowError
    ELSE Returned(WeekendSnap(pred_date))

get_correct_pred_date(pred_date, first, last, len) ==
    IF ~InDateRange(first + len) THEN OverflowError
    ELSE IF LowerBoundViolated(pred_date, first, len)
         THEN InvalidPredictionDateError(pred_date, first, len, TRUE)
    ELSE IF UpperBoundOverflows(pred_date, last) THEN OverflowError
    ELSE IF UpperBoundViolated(pred_date, last)
         THEN InvalidPredictionDateError(pred_date, last, len, FALSE)
    ELSE IF ~InDateRange(WeekendSnap(pred_date)) THEN OverflowError
    ELSE Returned(WeekendSnap(pred_date))

---------------------------------------------------------------------------
(* utils/utils.py get_correct_pred_date (no seq_len, no df_first_date) *)

\* mutant: the Sunday after a Friday last date advances by two days
M_LegacyAdjust_SundayTwoDays(pred_date, last) ==
    IF weekday(last) = 4 /\ pred_date = last + 1 THEN pred_date + 2
    ELSE IF weekday(last) = 4 /\ pred_date = last + 2 THEN pred_date + 2
    ELSE pred_date

\* lines 67-73: on a Friday last date, last + 1 -> + 2 days, last + 2 -> + 1 day
LegacyAdjust(pred_date, last) ==
    IF weekday(last) = 4 /\ pred_date = last + 1 THEN pred_date + 2
    ELSE IF weekday(last) = 4 /\ pred_date = last + 2 THEN pred_date + 1
    ELSE pred_date

\* lines 75 and 78
LegacyUpperBoundViolated(pred_date, last) ==
    IF weekday(last) = 4
    THEN pred_date # last + 1 /\ pred_date # last + 2 /\ pred_date > last + 3
    ELSE last < pred_date - 1

legacy_get_correct_pred_date(pred_date, last) ==
    IF weekday(last) = 4 /\ ~InDateRange(last + 3) THEN OverflowError
    ELSE IF weekday(last) # 4 /\ ~InDateRange(pred_date - 1) THEN OverflowError
    ELSE IF LegacyUpperBoundViolated(pred_date, last)
         THEN LegacyInvalidPredictionDateError(pred_date, last)
    ELSE Returned(LegacyAdjust(pred_date, last))

---------------------------------------------------------------------------
(* get_prediction_date: date is None -> today, else the parsed date *)

\* the optional date argument is a sequence of length <= 1; <<>> is None
candidate == IF date = <<>> THEN today ELSE date[1]

get_prediction_date == get_correct_pred_date(candidate, df_first_date, df_last_date, seq_len)

legacy_get_prediction_date == legacy_get_correct_pred_date(candidate, df_last_date)

\* KerasModel.predict lines 79-83: the notice is printed when a date was
\* given and the returned date differs from it
NoticeFor(res) ==
    IF res.kind # "ok" THEN "raised"
    ELSE IF date # <<>> /\ res.date # date[1] THEN "printed"
    ELSE "silent"

---------------------------------------------------------------------------
(* State machine *)

WindowDates == WindowStart .. (WindowStart + WindowSpan)

\* dates around the data window: the clock's today, or a requested date
NearDates == (WindowStart - DaysBefore) .. (WindowStart + WindowSpan + DaysAfter)

\* dates a date string can name: also the first dates strptime accepts
CandidateDates == NearDates \cup (DATE_MIN .. (DATE_MIN + EarlySpan))

Init ==
    /\ df_first_date \in WindowDates
    /\ df_last_date \in WindowDates
    /\ df_first_date <= df_last_date
    /\ seq_len \in 0 .. MaxSeqLen
    /\ today \in NearDates
    /\ \/ date = <<>>
       \/ /\ today = df_last_date + 1
          /\ \E c \in CandidateDates : date = <<c>>
    /\ result = Pending
    /\ notice = "none"
    /\ legacy = Pending
    /\ again = Pending

\* KerasModel.predict(date): _predict -> get_prediction_date -> get_correct_pred_date
Predict ==
    /\ result = Pending
    /\ result' = get_prediction_date
    /\ notice' = NoticeFor(get_prediction_date)
    /\ UNCHANGED <<date, today, df_first_date, df_last_date, seq_len, legacy, again>>

\* utils/utils.py get_prediction_date(df, date)
LegacyPredict ==
    /\ legacy = Pending
    /\ legacy' = legacy_get_prediction_date
    /\ UNCHANGED <<date, today, df_first_date, df_last_date, seq_len, result, notice, again>>

\* the returned date is requested again against the same data window
PredictAgain ==
    /\ result.kind = "ok"
    /\ again = Pending
    /\ again' = get_correct_pred_date(result.date, df_first_date, df_last_date, seq_len)
    /\ UNCHANGED <<date, today, df_first_date, df_last_date, seq_len, result, notice, legacy>>

Next == Predict \/ LegacyPredict \/ PredictAgain

Spec == Init /\ [][Next]_vars

---------------------------------------------------------------------------
(* Vocabulary of the properties *)

\* the next valid trading day after the data window
NextTradingDay == IF weekday(df_last_date) = 4 THEN df_last_date + 3 ELSE df_last_date + 1

\* the earliest date the model has enough history for
EarliestAllowed == df_first_date + seq_len

IsWeekend(d) == weekday(d) = 5 \/ weekday(d) = 6

Resolved(o) == o.kind = "ok"

TooEarly(o) == o.kind = "InvalidPredictionDateError" /\ o.lower

TooLate(o) == o.kind = "InvalidPredictionDateError" /\ ~o.lower

\* the candidate is the single-day-ahead date, or the Monday after a Friday
AtBoundary ==
    \/ candidate = df_last_date + 1
    \/ weekday(df_last_date) = 4 /\ candidate = df_last_date + 3

---------------------------------------------------------------------------
\* C1: a candidate that passes the lower-bound check fails with the
\* too-late error exactly when it is later than the next valid trading day
\* (last + 3 days after a Friday, last + 1 day otherwise); every candidate at
\* or before that day, also one at or before last_date, resolves.
C1_UpperBound ==
    (result # Pending /\ EarliestAllowed <= candidate) =>
        IF candidate > NextTradingDay THEN TooLate(result) ELSE Resolved(result)

\* C1 witness: Friday window, the candidate is the Tuesday after: too late
C1_Witness ==
    /\ weekday(df_last_date) = 4
    /\ candidate = df_last_date + 4
    /\ EarliestAllowed <= candidate
    /\ TooLate(result)

\* C2: with seq_len supplied, the too-early error is raised exactly when
\* first_date + seq_len > candidate, it reports first_date + seq_len as the
\* earliest allowed date, and a candidate equal to that date is not rejected.
C2_LowerBound ==
    result # Pending =>
        /\ TooEarly(result) <=> (df_first_date + seq_len > candidate)
        /\ TooEarly(result) =>
              /\ result.limit = df_first_date + seq_len
              /\ result.date = candidate
        /\ candidate = df_first_date + seq_len => ~TooEarly(result)

\* C2 witness: the candidate is one day short of the earliest allowed date
C2_Witness ==
    /\ seq_len > 0
    /\ candidate + 1 = df_first_date + seq_len
    /\ TooEarly(result)

\* C3: a resolved date is the candidate + 2 days for a Saturday, + 1 day for
\* a Sunday and the candidate itself for Monday to Friday; it is never a
\* Saturday or Sunday, and snapping it again changes nothing.
C3_WeekendSnap ==
    Resolved(result) =>
        /\ result.date - candidate =
              (IF weekday(candidate) = 5 THEN 2 ELSE IF weekday(candidate) = 6 THEN 1 ELSE 0)
        /\ ~IsWeekend(result.date)
        /\ WeekendSnap(result.date) = result.date

\* C3 witness: a Saturday candidate resolved to the Monday after
C3_Witness ==
    /\ weekday(candidate) = 5
    /\ Resolved(result)
    /\ result.date = candidate + 2

\* C4 as stated: a candidate at the boundary is accepted by both
\* implementations for every window and every seq_len.
C4_Original ==
    AtBoundary =>
        /\ result # Pending => Resolved(result)
        /\ legacy # Pending => Resolved(legacy)

\* C4 amended: a candidate at the boundary is never rejected as too late; the
\* legacy implementation (no seq_len) always resolves it, and the seq_len
\* implementation resolves it exactly when first_date + seq_len <= candidate
\* and raises the too-early error otherwise.
C4_Boundary ==
    AtBoundary =>
        /\ result # Pending =>
              /\ ~TooLate(result)
              /\ Resolved(result) <=> (EarliestAllowed <= candidate)
              /\ ~Resolved(result) => TooEarly(result)
        /\ legacy # Pending => Resolved(legacy)

\* C4 witness: Friday window, the candidate is the Monday after, both resolve
C4_Witness ==
    /\ weekday(df_last_date) = 4
    /\ candidate = df_last_date + 3
    /\ Resolved(result)
    /\ Resolved(legacy)

\* C5: without seq_len (the legacy implementation) every candidate that
\* satisfies the upper-bound check resolves, whatever first_date is, and the
\* too-early error is never produced.
C5_NoLowerBound ==
    legacy # Pending =>
        /\ ~TooEarly(legacy)
        /\ candidate <= NextTradingDay => Resolved(legacy)

\* C6: on success, adjusted (resolved date # candidate) is true exactly when
\* the candidate is a Saturday or Sunday, the resolved date is then a Monday,
\* and predict prints its notice exactly for a given date that was adjusted.
C6_Adjusted ==
    Resolved(result) =>
        /\ (result.date # candidate) <=> IsWeekend(candidate)
        /\ result.date # candidate => weekday(result.date) = 0
        /\ notice = "printed" <=> (date # <<>> /\ IsWeekend(candidate))

\* C6 witness: the notice was printed for a Sunday request
C6_Witness ==
    /\ date # <<>>
    /\ weekday(candidate) = 6
    /\ notice = "printed"
    /\ weekday(result.date) = 0

C8_LowerBoundFirst ==
    (result # Pending /\ EarliestAllowed > candidate /\ candidate > NextTradingDay) =>
        TooEarly(result)

\* C8 witness: a candidate past the upper bound and short of the lower bound
C8_Witness ==
    /\ EarliestAllowed > candidate
    /\ candidate > NextTradingDay
    /\ TooEarly(result)

\* C9: with a Monday-to-Friday last_date, a resolved date lies between the
\* candidate and the next valid trading day, and requesting the resolved date
\* again against the same window returns it unchanged.
C9_SnapWithinBound ==
    (weekday(df_last_date) <= 4 /\ Resolved(result)) =>
        /\ candidate <= result.date
        /\ result.date <= NextTradingDay
        /\ again # Pending => again = Returned(result.date)

\* C9 witness: a Saturday after a Friday window, snapped and resolved again
C9_Witness ==
    /\ weekday(df_last_date) = 4
    /\ candidate = df_last_date + 1
    /\ result.date = NextTradingDay
    /\ again = Returned(result.date)

\* C10: for a Monday-to-Friday last_date and a candidate later than last_date
\* that passes the lower-bound check, the two implementations both raise
\* InvalidPredictionDateError or both return the same date.
C10_Agreement ==
    (/\ weekday(df_last_date) <= 4
     /\ candidate > df_last_date
     /\ EarliestAllowed <= candidate
     /\ result # Pending
     /\ legacy # Pending) =>
        \/ /\ result.kind = "InvalidPredictionDateError"
           /\ legacy.kind = "InvalidPredictionDateError"
        \/ /\ Resolved(result)
           /\ Resolved(legacy)
           /\ result.date = legacy.date

\* C10 witness: the Sunday after a Friday window, both return the Monday
C10_Witness ==
    /\ weekday(df_last_date) = 4
    /\ candidate = df_last_date + 2
    /\ EarliestAllowed <= candidate
    /\ Resolved(result)
    /\ Resolved(legacy)
    /\ legacy.date = df_last_date + 3
    /\ result.date = legacy.date

====
